---- MODULE Spec2Model ----
(***************************************************************************)
(* Model of src/mempool_alerts.ts: a rule-based mempool watcher.           *)
(*                                                                         *)
(* JavaScript strings that the program slices or lowercases are sequences  *)
(* of one-character strings; Str renders one as a TLA+ string where the    *)
(* program interpolates it into a template literal.  An optional value     *)
(* (undefined / null) is a sequence of length 0 (Absent) or 1 (Some(v)).   *)
(* A number is a decimal [m, e] standing for m * 10^e, so that wei amounts *)
(* of the order of 10^18 and thresholds such as 0.5 are both exact.        *)
(***************************************************************************)
EXTENDS Integers, Sequences, FiniteSets, TLC

VARIABLES
    proc,       \* "init" | "listening" | "exited": the process
    exitCode,   \* Absent, or Some(status) once the process has exited
    destroyed,  \* provider.destroy() has been called
    stderr,     \* diagnostic lines written with console.error
    stdout,     \* alert records written with console.log, in order
    now,        \* Date.now(), in milliseconds
    ticks,      \* number of clock advances so far
    hpc,        \* per notification: "idle" | "fetching" | "done"
    hhash,      \* per notification: the hash the provider announced
    fetches,    \* per notification: calls of provider.getTransaction
    result,     \* per notification: Absent, or Some(lookup outcome)
    wrote,      \* per notification: the lines it wrote, as [line, at]
    unhandled,  \* promise rejections that escaped a pending handler
    sawFailure, \* per notification: another lookup failed while it was in flight
    mtx,        \* matcher harness: the transaction under evaluation
    mrules,     \* matcher harness: the rule set under evaluation
    msel,       \* matcher harness: Absent, or Some(result of selectorOf)
    mout        \* matcher harness: Absent, or Some(verdict of matchRules)

vars == <<proc, exitCode, destroyed, stderr, stdout, now, ticks, hpc, hhash,
          fetches, result, wrote, unhandled, sawFailure, mtx, mrules, msel, mout>>

sysVars == <<proc, exitCode, destroyed, stderr, stdout, now, ticks, hpc, hhash,
             fetches, result, wrote, unhandled, sawFailure>>

matchVars == <<mtx, mrules, msel, mout>>

(***************************************************************************)
(* Bounds of the model.                                                    *)
(***************************************************************************)
MaxNotifs == 2

MaxDataLen == 12

MaxTicks == 1

TickMs == 1500

(***************************************************************************)
(* Optional values and JavaScript strings.                                 *)
(***************************************************************************)
Absent == <<>>

Some(v) == <<v>>

\* x ?? d
Coalesce(x, d) == IF x = Absent THEN d ELSE x[1]

RECURSIVE Str(_)
Str(s) == IF s = <<>> THEN "" ELSE Head(s) \o Str(Tail(s))

\* Array.prototype.includes
Includes(list, x) == \E i \in 1..Len(list) : list[i] = x

LowerChar(c) ==
    CASE c = "A" -> "a"
      [] c = "B" -> "b"
      [] c = "C" -> "c"
      [] c = "D" -> "d"
      [] c = "E" -> "e"
      [] c = "F" -> "f"
      [] c = "X" -> "x"
      [] OTHER -> c

\* String.prototype.toLowerCase
toLowerCase(s) == [i \in 1..Len(s) |-> LowerChar(s[i])]

\* String.prototype.slice(0, n)
SliceFromStart(s, n) == SubSeq(s, 1, IF n < Len(s) THEN n ELSE Len(s))

(***************************************************************************)
(* Numbers: a decimal [m, e] stands for m * 10^e.                          *)
(***************************************************************************)
Dec(m, e) == [m |-> m, e |-> e]

Zero == Dec(0, 0)

RECURSIVE Pow10(_)
Pow10(k) == IF k <= 0 THEN 1 ELSE 10 * Pow10(k - 1)

\* a JavaScript number is truthy unless it is 0 (or NaN)
Truthy(optNum) == optNum # Absent /\ optNum[1].m # 0

RECURSIVE Normalize(_)
Normalize(d) ==
    IF d.m = 0 THEN Zero
    ELSE IF d.e < 0 /\ d.m % 10 = 0 THEN Normalize(Dec(d.m \div 10, d.e + 1))
    ELSE d

\* a < b
Less(a, b) ==
    LET x == Normalize(a)
        y == Normalize(b)
        k == IF x.e < y.e THEN x.e ELSE y.e
    IN  x.m * Pow10(x.e - k) < y.m * Pow10(y.e - k)

RECURSIVE Digits(_, _)
Digits(n, width) ==
    IF width <= 0 THEN "" ELSE Digits(n \div 10, width - 1) \o ToString(n % 10)

\* Number.prototype.toString, as a template literal applies it
FormatNumber(d) ==
    LET n == Normalize(d)
    IN  IF n.e >= 0 THEN ToString(n.m * Pow10(n.e))
        ELSE ToString(n.m \div Pow10(-n.e)) \o "." \o Digits(n.m % Pow10(-n.e), -n.e)

(***************************************************************************)
(* The program's constants.                                                *)
(***************************************************************************)
\* input.length < 10
MinDataLen == 10

\* input.slice(0, 10)
SelectorLen == 10

\* Number(wei) / 1e18
WeiDecimals == 18

\* Date.now() / 1000
MsPerSec == 1000

Sentinel == <<"0", "x", "0", "0", "0", "0", "0", "0", "0", "0">>

\* "0x095ea7b3", the selector of approve()
ApproveSel == <<"0", "x", "0", "9", "5", "e", "a", "7", "b", "3">>

EmptyData == <<"0", "x">>

RULES ==
    [minEth          |-> Some(Dec(5, -1)),
     allowSelectors  |-> Some(<<>>),
     denySelectors   |-> Some(<<ApproveSel>>),
     watchRecipients |-> Some(<<>>)]

(***************************************************************************)
(* The pure functions.                                                     *)
(***************************************************************************)
\* selectorOf with the length test counting the 8 hex digits only
selectorOfHexDigits(input) ==
    IF input = Absent \/ Len(input[1]) = 0 \/ Len(input[1]) < 8
    THEN Sentinel
    ELSE toLowerCase(SliceFromStart(input[1], SelectorLen))

\* selectorOf without toLowerCase()
selectorOfNoLower(input) ==
    IF input = Absent \/ Len(input[1]) = 0 \/ Len(input[1]) < MinDataLen
    THEN Sentinel
    ELSE SliceFromStart(input[1], SelectorLen)

\* input is Absent (undefined) or Some(string); !input holds for both
\* undefined and the empty string
selectorOf(input) ==
    IF input = Absent \/ Len(input[1]) = 0 \/ Len(input[1]) < MinDataLen
    THEN Sentinel
    ELSE toLowerCase(SliceFromStart(input[1], SelectorLen))

weiToEth(wei) == Dec(wei.m, wei.e - WeiDecimals)

\* const sel = selectorOf(tx.data ?? "0x")
MatchSel(tx) == selectorOf(Some(Coalesce(tx.data, EmptyData)))

\* const eth = weiToEth(tx.value ?? 0n)
MatchEth(tx) == weiToEth(Coalesce(tx.value, Zero))

\* if (rules.minEth && eth < rules.minEth) reasons.push(`value<${rules.minEth}`)
MinEthReason(tx, rules) ==
    IF Truthy(rules.minEth) /\ Less(MatchEth(tx), rules.minEth[1])
    THEN <<"value<" \o FormatNumber(rules.minEth[1])>>
    ELSE <<>>

\* AllowReason without the .length test: an empty allow list allows nothing
AllowReasonNoLength(tx, rules) ==
    IF /\ rules.allowSelectors # Absent
       /\ ~Includes(rules.allowSelectors[1], MatchSel(tx))
    THEN <<"!allowed:" \o Str(MatchSel(tx))>>
    ELSE <<>>

AllowReason(tx, rules) ==
    IF /\ rules.allowSelectors # Absent
       /\ Len(rules.allowSelectors[1]) # 0
       /\ ~Includes(rules.allowSelectors[1], MatchSel(tx))
    THEN <<"!allowed:" \o Str(MatchSel(tx))>>
    ELSE <<>>

\* DenyReason that an allow-list entry overrides
DenyReasonUnlessAllowed(tx, rules) ==
    IF /\ rules.denySelectors # Absent
       /\ Includes(rules.denySelectors[1], MatchSel(tx))
       /\ ~(rules.allowSelectors # Absent /\ Includes(rules.allowSelectors[1], MatchSel(tx)))
    THEN <<"denied:" \o Str(MatchSel(tx))>>
    ELSE <<>>

DenyReason(tx, rules) ==
    IF /\ rules.denySelectors # Absent
       /\ Includes(rules.denySelectors[1], MatchSel(tx))
    THEN <<"denied:" \o Str(MatchSel(tx))>>
    ELSE <<>>

WatchReason(tx, rules) ==
    IF /\ rules.watchRecipients # Absent
       /\ Len(rules.watchRecipients[1]) # 0
       /\ ~Includes(rules.watchRecipients[1], toLowerCase(Coalesce(tx.to, <<>>)))
    THEN <<"!watched:to">>
    ELSE <<>>

\* Verdict with ok: !reasons, which is false of every array
VerdictNotArray(reasons) == [ok |-> FALSE, reason |-> reasons]

\* return { ok: reasons.length === 0, reason: reasons }
Verdict(reasons) == [ok |-> Len(reasons) = 0, reason |-> reasons]

\* matchRules as an else-if chain: the first failing check ends the evaluation
matchRulesShortCircuit(tx, rules) ==
    Verdict(IF MinEthReason(tx, rules) # <<>> THEN MinEthReason(tx, rules)
            ELSE IF AllowReason(tx, rules) # <<>> THEN AllowReason(tx, rules)
            ELSE IF DenyReason(tx, rules) # <<>> THEN DenyReason(tx, rules)
            ELSE WatchReason(tx, rules))

matchRules(tx, rules) ==
    Verdict(MinEthReason(tx, rules) \o AllowReason(tx, rules)
            \o DenyReason(tx, rules) \o WatchReason(tx, rules))

(***************************************************************************)
(* Inputs of the matcher harness.                                          *)
(***************************************************************************)
\* "0xa9059cbb", the selector of transfer(), the example of allowSelectors
TransferSel == <<"0", "x", "a", "9", "0", "5", "9", "c", "b", "b">>

Pad(s) == s \o [i \in 1..(MaxDataLen - Len(s)) |-> "0"]

Prefixes(s) == {SubSeq(Pad(s), 1, n) : n \in 0..MaxDataLen}

ApproveUpper == <<"0", "x", "0", "9", "5", "E", "A", "7", "B", "3">>

TransferMixed == <<"0", "X", "A", "9", "0", "5", "9", "c", "B", "b">>

DataStrings == Prefixes(ApproveSel) \cup Prefixes(ApproveUpper) \cup Prefixes(TransferMixed)

AddrA == <<"0", "x", "a", "a", "a">>

AddrAUpper == <<"0", "x", "A", "A", "A">>

AddrB == <<"0", "x", "B", "B", "B">>

HashOne == <<"0", "x", "1">>

\* wei amounts: 0, 0.1 ETH, 0.5 ETH, 2 ETH
WeiAmounts == {Zero, Dec(1, 17), Dec(5, 17), Dec(2, 18)}

MatchTxs ==
    [hash  : {HashOne},
     from  : {Some(AddrB)},
     to    : {Absent, Some(AddrA), Some(AddrAUpper), Some(AddrB)},
     value : {Absent} \cup {Some(w) : w \in WeiAmounts},
     data  : {Absent} \cup {Some(d) : d \in DataStrings},
     nonce : {5}]

RuleSets ==
    [minEth          : {Absent, Some(Zero), Some(Dec(5, -1)), Some(Dec(1, 0))},
     allowSelectors  : {Absent, Some(<<>>), Some(<<TransferSel>>),
                        Some(<<TransferSel, ApproveSel>>)},
     denySelectors   : {Absent, Some(<<>>), Some(<<ApproveSel>>),
                        Some(<<Sentinel, TransferSel>>)},
     watchRecipients : {Absent, Some(<<>>), Some(<<AddrA>>)}]

(***************************************************************************)
(* The node: the pending pool the provider looks transactions up in.       *)
(***************************************************************************)
HashTwo == <<"0", "x", "2">>

HashThree == <<"0", "x", "3">>

HashFour == <<"0", "x", "4">>

Hashes == {HashOne, HashTwo, HashThree, HashFour}

\* the transaction the node holds for a hash
TxOf(h) ==
    CASE h = HashOne ->    \* plain transfer of 2 ETH
           [hash |-> h, from |-> Some(AddrB), to |-> Some(AddrAUpper),
            value |-> Some(Dec(2, 18)), data |-> Some(EmptyData), nonce |-> 5]
      [] h = HashTwo ->    \* contract creation carrying exactly 0.5 ETH
           [hash |-> h, from |-> Some(AddrAUpper), to |-> Absent,
            value |-> Some(Dec(5, 17)), data |-> Some(Pad(TransferMixed)), nonce |-> 0]
      [] h = HashThree ->  \* transfer of 0.1 ETH
           [hash |-> h, from |-> Some(AddrA), to |-> Some(AddrB),
            value |-> Some(Dec(1, 17)), data |-> Some(EmptyData), nonce |-> 7]
      [] OTHER ->          \* approve() call carrying 2 ETH
           [hash |-> h, from |-> Some(AddrB), to |-> Some(AddrA),
            value |-> Some(Dec(2, 18)), data |-> Some(Pad(ApproveUpper)), nonce |-> 1]

\* what provider.getTransaction(hash) can settle to
Outcomes(h) == {[kind |-> "tx", tx |-> TxOf(h)], [kind |-> "null"], [kind |-> "throw"]}

Notifs == 1..MaxNotifs

(***************************************************************************)
(* The pending handler.                                                    *)
(***************************************************************************)
\* Alert with from: tx.from, not lowercased
AlertRawFrom(tx, t) ==
    [type     |-> "mempool_alert",
     hash     |-> tx.hash,
     from     |-> Coalesce(tx.from, <<>>),
     to       |-> toLowerCase(Coalesce(tx.to, <<>>)),
     eth      |-> weiToEth(Coalesce(tx.value, Zero)),
     selector |-> selectorOf(Some(Coalesce(tx.data, EmptyData))),
     nonce    |-> tx.nonce,
     ts       |-> t \div MsPerSec]

\* const alert = { type: ..., ts: Math.floor(Date.now()/1000) }
Alert(tx, t) ==
    [type     |-> "mempool_alert",
     hash     |-> tx.hash,
     from     |-> toLowerCase(Coalesce(tx.from, <<>>)),
     to       |-> toLowerCase(Coalesce(tx.to, <<>>)),
     eth      |-> weiToEth(Coalesce(tx.value, Zero)),
     selector |-> selectorOf(Some(Coalesce(tx.data, EmptyData))),
     nonce    |-> tx.nonce,
     ts       |-> t \div MsPerSec]

\* HandlerBody without its try/catch: a failed lookup rejects the handler's promise
HandlerBodyNoCatch(o, t) ==
    IF o.kind = "throw" THEN [lines |-> <<>>, escaped |-> TRUE]
    ELSE IF o.kind = "null" THEN [lines |-> <<>>, escaped |-> FALSE]
    ELSE IF ~matchRules(o.tx, RULES).ok THEN [lines |-> <<>>, escaped |-> FALSE]
    ELSE [lines |-> <<Alert(o.tx, t)>>, escaped |-> FALSE]

\* the handler from the point its await settles: the lines it prints and
\* whether an error escapes it
HandlerBody(o, t) ==
    IF o.kind = "throw" THEN [lines |-> <<>>, escaped |-> FALSE]   \* catch (e) {}
    ELSE IF o.kind = "null" THEN [lines |-> <<>>, escaped |-> FALSE]
    ELSE IF ~matchRules(o.tx, RULES).ok THEN [lines |-> <<>>, escaped |-> FALSE]
    ELSE [lines |-> <<Alert(o.tx, t)>>, escaped |-> FALSE]

SysInit ==
    /\ proc = "init"
    /\ exitCode = Absent
    /\ destroyed = FALSE
    /\ stderr = <<>>
    /\ stdout = <<>>
    /\ now = 0
    /\ ticks = 0
    /\ hpc = [n \in Notifs |-> "idle"]
    /\ hhash = [n \in Notifs |-> Absent]
    /\ fetches = [n \in Notifs |-> 0]
    /\ result = [n \in Notifs |-> Absent]
    /\ wrote = [n \in Notifs |-> <<>>]
    /\ unhandled = 0
    /\ sawFailure = [n \in Notifs |-> FALSE]

MatchIdle ==
    /\ mtx = Absent
    /\ mrules = Absent
    /\ msel = Absent
    /\ mout = Absent

Init == SysInit /\ MatchIdle

\* main(): new WebSocketProvider(url); console.error(...); provider.on(...)
Start ==
    /\ proc = "init"
    /\ proc' = "listening"
    /\ stderr' = Append(stderr, "[mempool] connected")
    /\ UNCHANGED <<exitCode, destroyed, stdout, now, ticks, hpc, hhash, fetches,
                   result, wrote, unhandled, sawFailure>>
    /\ UNCHANGED matchVars

\* main().catch((e) => { console.error(e); process.exit(1); })
StartFail ==
    /\ proc = "init"
    /\ proc' = "exited"
    /\ exitCode' = Some(1)
    /\ stderr' = Append(stderr, "error")
    /\ UNCHANGED <<destroyed, stdout, now, ticks, hpc, hhash, fetches,
                   result, wrote, unhandled, sawFailure>>
    /\ UNCHANGED matchVars

\* the provider emits "pending": the handler runs up to its await
Pending(n, h) ==
    /\ proc = "listening"
    /\ hpc[n] = "idle"
    /\ \A m \in 1..(n - 1) : hpc[m] # "idle"
    /\ hpc' = [hpc EXCEPT ![n] = "fetching"]
    /\ hhash' = [hhash EXCEPT ![n] = Some(h)]
    /\ fetches' = [fetches EXCEPT ![n] = @ + 1]
    /\ UNCHANGED <<proc, exitCode, destroyed, stderr, stdout, now, ticks,
                   result, wrote, unhandled, sawFailure>>
    /\ UNCHANGED matchVars

\* Resolve with a catch block that looks the transaction up again
ResolveRetry(n, o) ==
    /\ proc = "listening"
    /\ hpc[n] = "fetching"
    /\ o \in Outcomes(hhash[n][1])
    /\ LET b == HandlerBody(o, now)
       IN  /\ stdout' = stdout \o b.lines
           /\ wrote' = [wrote EXCEPT ![n] =
                           @ \o [i \in 1..Len(b.lines) |->
                                    [line |-> Len(stdout) + i, at |-> now]]]
           /\ unhandled' = unhandled + (IF b.escaped THEN 1 ELSE 0)
    /\ result' = [result EXCEPT ![n] = IF o.kind = "throw" THEN @ ELSE Some(o)]
    /\ hpc' = [hpc EXCEPT ![n] = IF o.kind = "throw" THEN "fetching" ELSE "done"]
    /\ fetches' = [fetches EXCEPT ![n] =
                      IF o.kind = "throw" /\ @ < 2 THEN @ + 1 ELSE @]
    /\ sawFailure' = [m \in Notifs |->
                         sawFailure[m] \/ (m # n /\ hpc[m] = "fetching" /\ o.kind # "tx")]
    /\ UNCHANGED <<proc, exitCode, destroyed, stderr, now, ticks, hhash>>
    /\ UNCHANGED matchVars

\* the lookup settles with outcome o and the handler runs to its end
Resolve(n, o) ==
    /\ proc = "listening"
    /\ hpc[n] = "fetching"
    /\ o \in Outcomes(hhash[n][1])
    /\ LET b == HandlerBody(o, now)
       IN  /\ stdout' = stdout \o b.lines
           /\ wrote' = [wrote EXCEPT ![n] =
                           @ \o [i \in 1..Len(b.lines) |->
                                    [line |-> Len(stdout) + i, at |-> now]]]
           /\ unhandled' = unhandled + (IF b.escaped THEN 1 ELSE 0)
    /\ result' = [result EXCEPT ![n] = Some(o)]
    /\ hpc' = [hpc EXCEPT ![n] = "done"]
    /\ sawFailure' = [m \in Notifs |->
                         sawFailure[m] \/ (m # n /\ hpc[m] = "fetching" /\ o.kind # "tx")]
    /\ UNCHANGED <<proc, exitCode, destroyed, stderr, now, ticks, hhash, fetches>>
    /\ UNCHANGED matchVars

\* time passes
Tick ==
    /\ proc = "listening"
    /\ ticks < MaxTicks
    /\ ticks' = ticks + 1
    /\ now' = now + TickMs
    /\ UNCHANGED <<proc, exitCode, destroyed, stderr, stdout, hpc, hhash, fetches,
                   result, wrote, unhandled, sawFailure>>
    /\ UNCHANGED matchVars

\* Sigint without process.exit(0): the provider is destroyed, the process lives on
SigintNoExit ==
    /\ proc = "listening"
    /\ destroyed' = TRUE
    /\ UNCHANGED <<proc, exitCode, stderr, stdout, now, ticks, hpc, hhash, fetches,
                   result, wrote, unhandled, sawFailure>>
    /\ UNCHANGED matchVars

\* process.on("SIGINT", () => { provider.destroy(); process.exit(0); })
Sigint ==
    /\ proc = "listening"
    /\ destroyed' = TRUE
    /\ proc' = "exited"
    /\ exitCode' = Some(0)
    /\ UNCHANGED <<stderr, stdout, now, ticks, hpc, hhash, fetches,
                   result, wrote, unhandled, sawFailure>>
    /\ UNCHANGED matchVars

Next ==
    \/ Start
    \/ StartFail
    \/ \E n \in Notifs, h \in Hashes : Pending(n, h)
    \/ \E n \in Notifs, h \in Hashes : \E o \in Outcomes(h) : Resolve(n, o)
    \/ Tick
    \/ Sigint

Spec == Init /\ [][Next]_vars

(***************************************************************************)
(* The matcher harness: one transaction and one rule set, drawn from the   *)
(* input sets, to which selectorOf and matchRules are applied.             *)
(***************************************************************************)
InitMatch ==
    /\ SysInit
    /\ mtx \in {Some(t) : t \in MatchTxs}
    /\ mrules \in {Some(r) : r \in RuleSets}
    /\ msel = Absent
    /\ mout = Absent

CallSelectorOf ==
    /\ msel = Absent
    /\ msel' = Some(selectorOf(mtx[1].data))
    /\ UNCHANGED <<mtx, mrules, mout>>
    /\ UNCHANGED sysVars

CallMatchRules ==
    /\ mout = Absent
    /\ mout' = Some(matchRules(mtx[1], mrules[1]))
    /\ UNCHANGED <<mtx, mrules, msel>>
    /\ UNCHANGED sysVars

NextMatch == CallSelectorOf \/ CallMatchRules

SpecMatch == InitMatch /\ [][NextMatch]_vars

(***************************************************************************)
(* Properties of the watcher, checked under Spec.                          *)
(***************************************************************************)
UpperChars == {"A", "B", "C", "D", "E", "F", "X"}

CasePairs == {<<"A", "a">>, <<"B", "b">>, <<"C", "c">>, <<"D", "d">>,
              <<"E", "e">>, <<"F", "f">>, <<"X", "x">>}

\* c is the lowercase form of d
IsLowerOfChar(c, d) == IF d \in UpperChars THEN <<d, c>> \in CasePairs ELSE c = d

\* s is t lowercased
IsLowerOf(s, t) == Len(s) = Len(t) /\ \A i \in 1..Len(t) : IsLowerOfChar(s[i], t[i])

\* s and t differ only in letter case
SameIgnoringCase(s, t) ==
    /\ Len(s) = Len(t)
    /\ \A i \in 1..Len(s) :
          \/ s[i] = t[i]
          \/ <<s[i], t[i]>> \in CasePairs
          \/ <<t[i], s[i]>> \in CasePairs

\* the lookup of notification n returned a transaction that RULES accept
LookupAccepted(n) ==
    /\ hpc[n] = "done"
    /\ result[n] # Absent
    /\ result[n][1].kind = "tx"
    /\ matchRules(result[n][1].tx, RULES).ok

\* the notifications whose handler has written to standard output
Emitters == {n \in Notifs : wrote[n] # <<>>}

RECURSIVE SumLines(_)
SumLines(n) == IF n = 0 THEN 0 ELSE Len(wrote[n]) + SumLines(n - 1)

\* C3: a handler writes one line if and only if its lookup returned a
\* transaction that matchRules accepted; a rejected or missing transaction
\* and a lookup that throws write nothing and let no error escape.
OutputIffAccepted ==
    /\ \A n \in Notifs : Len(wrote[n]) = (IF LookupAccepted(n) THEN 1 ELSE 0)
    /\ Len(stdout) = SumLines(MaxNotifs)
    /\ unhandled = 0

\* C3 witness: one handler has printed its alert and another has ended on a
\* lookup that threw.
OutputWitness ==
    \E n, m \in Notifs :
        /\ Len(wrote[n]) = 1
        /\ hpc[m] = "done"
        /\ result[m] = Some([kind |-> "throw"])
        /\ wrote[m] = <<>>

\* C4: no lookup is made twice, the alerts emitted are those of the
\* notifications whose lookup returned an accepted transaction, and each
\* alert is made of its own notification's transaction alone.
HandlersIndependent ==
    /\ \A n \in Notifs : fetches[n] = (IF hpc[n] = "idle" THEN 0 ELSE 1)
    /\ Emitters = {n \in Notifs : LookupAccepted(n)}
    /\ \A n \in Notifs : \A k \in 1..Len(wrote[n]) :
          /\ wrote[n][k].line \in 1..Len(stdout)
          /\ stdout[wrote[n][k].line] = Alert(TxOf(hhash[n][1]), wrote[n][k].at)
    /\ \A n, m \in Notifs : \A k \in 1..Len(wrote[n]) : \A j \in 1..Len(wrote[m]) :
          wrote[n][k].line = wrote[m][j].line => (n = m /\ k = j)

\* C4 witness: while a handler was awaiting its lookup another handler's
\* lookup failed or came back empty, and the first went on to print.
OverlapWitness ==
    \E n, m \in Notifs :
        /\ n # m
        /\ sawFailure[n]
        /\ Len(wrote[n]) = 1
        /\ result[m] # Absent
        /\ result[m][1].kind # "tx"

AlertFields == {"type", "hash", "from", "to", "eth", "selector", "nonce", "ts"}

ClaimedAlertFields ==
    {"type", "hash", "from", "to", "eth", "selector", "nonce", "timestamp"}

\* the alert a handler printed agrees with the transaction it looked up
AlertAgrees(a, tx, at) ==
    /\ a.type = "mempool_alert"
    /\ a.hash = tx.hash
    /\ IsLowerOf(a.from, Coalesce(tx.from, <<>>))
    /\ IsLowerOf(a.to, Coalesce(tx.to, <<>>))
    /\ a.eth = MatchEth(tx)
    /\ a.selector = MatchSel(tx)
    /\ a.nonce = tx.nonce

\* C5, as amended: the alert record has exactly the fields type, hash, from
\* (lowercased), to (lowercased, empty when the recipient is absent), eth,
\* selector, nonce and ts (whole seconds since the epoch), with eth and
\* selector the values the matcher computed for that transaction.
AlertRecordShape ==
    \A n \in Notifs : \A k \in 1..Len(wrote[n]) :
        LET a == stdout[wrote[n][k].line]
            at == wrote[n][k].at
        IN  /\ DOMAIN a = AlertFields
            /\ AlertAgrees(a, result[n][1].tx, at)
            /\ a.ts \in Nat
            /\ a.ts * 1000 <= at
            /\ at < (a.ts + 1) * 1000

\* C5 witness: the alert of the contract creation (no recipient, a sender
\* written in uppercase) has been printed one and a half seconds in.
AlertWitness ==
    \E i \in 1..Len(stdout) :
        /\ stdout[i].hash = HashTwo
        /\ stdout[i].to = <<>>
        /\ stdout[i].from = AddrA
        /\ stdout[i].ts = 1

\* C5, as stated: the alert record has exactly the fields type, hash, from,
\* to, eth, selector, nonce and timestamp.
AlertRecordShapeAsClaimed ==
    \A n \in Notifs : \A k \in 1..Len(wrote[n]) :
        LET a == stdout[wrote[n][k].line]
            at == wrote[n][k].at
        IN  /\ DOMAIN a = ClaimedAlertFields
            /\ AlertAgrees(a, result[n][1].tx, at)
            /\ a.timestamp \in Nat
            /\ a.timestamp * 1000 <= at
            /\ at < (a.timestamp + 1) * 1000

\* C9: once the interrupt has been handled the provider is destroyed and the
\* process has exited with status 0, and from then on nothing is written: a
\* handler still awaiting its lookup never prints.
NoAlertAfterInterrupt ==
    /\ [](destroyed => (proc = "exited" /\ exitCode = Some(0)))
    /\ [][destroyed => (stdout' = stdout /\ wrote' = wrote /\ hpc' = hpc)]_vars

\* C9 witness: the process has exited on the interrupt while the lookup of a
\* transaction that RULES accept was in flight, and nothing was printed for it.
InterruptWitness ==
    \E n \in Notifs :
        /\ destroyed
        /\ proc = "exited"
        /\ hpc[n] = "fetching"
        /\ hhash[n] = Some(HashOne)
        /\ matchRules(TxOf(HashOne), RULES).ok
        /\ wrote[n] = <<>>

(***************************************************************************)
(* Properties of the pure functions, checked under SpecMatch.              *)
(***************************************************************************)
\* C1: the verdict of matchRules has ok true if and only if its reasons list
\* is empty.
AcceptedIffNoReasons ==
    mout # Absent => (mout[1].ok <=> mout[1].reason = <<>>)

\* C1 witness: a transaction accepted under a rule set that has a threshold
\* and a deny list.
AcceptedWitness ==
    /\ mout # Absent
    /\ mout[1].ok
    /\ mout[1].reason = <<>>
    /\ mrules[1].minEth = Some(Dec(5, -1))
    /\ mrules[1].denySelectors = Some(<<ApproveSel>>)

\* the selector of the harness's transaction, as the claims speak of it
ExtractedSel == selectorOf(Some(Coalesce(mtx[1].data, EmptyData)))

\* C2: whenever denySelectors contains the transaction's selector, matchRules
\* rejects it and the reasons include "denied:{sel}", whatever the other rules
\* and the transaction's value and recipient are.
DenyAlwaysRejects ==
    (/\ mout # Absent
     /\ mrules[1].denySelectors # Absent
     /\ Includes(mrules[1].denySelectors[1], ExtractedSel))
    => /\ ~mout[1].ok
       /\ Includes(mout[1].reason, "denied:" \o Str(ExtractedSel))

\* C2 witness: the selector is on the deny list and on the allow list, every
\* other check passes, and the transaction is rejected for the denial alone.
DenyWitness ==
    /\ mout # Absent
    /\ mrules[1].denySelectors = Some(<<ApproveSel>>)
    /\ mrules[1].allowSelectors = Some(<<TransferSel, ApproveSel>>)
    /\ ExtractedSel = ApproveSel
    /\ mout[1] = [ok |-> FALSE, reason |-> <<"denied:0x095ea7b3">>]

\* C6: for data that is absent, empty or shorter than 10 characters selectorOf
\* returns "0x00000000", and on every input it returns a 10-character string.
ShortDataGivesSentinel ==
    msel # Absent =>
        /\ Len(msel[1]) = 10
        /\ (mtx[1].data = Absent \/ Len(mtx[1].data[1]) < 10) => msel[1] = Sentinel

\* C6 witness: selectorOf has returned the sentinel for a 9-character string.
ShortDataWitness ==
    /\ msel = Some(Sentinel)
    /\ mtx[1].data # Absent
    /\ Len(mtx[1].data[1]) = 9

\* C7: for data of length at least 10 selectorOf returns the first 10
\* characters lowercased: a 10-character string without uppercase letters,
\* the same for any two data strings that differ only in letter case.
LongDataGivesLowercasedPrefix ==
    (msel # Absent /\ mtx[1].data # Absent /\ Len(mtx[1].data[1]) >= 10) =>
        /\ Len(msel[1]) = 10
        /\ IsLowerOf(msel[1], SubSeq(mtx[1].data[1], 1, 10))
        /\ \A i \in 1..Len(msel[1]) : msel[1][i] \notin UpperChars
        /\ \A d \in DataStrings :
              SameIgnoringCase(d, mtx[1].data[1]) => selectorOf(Some(d)) = msel[1]

\* C7 witness: selectorOf has been applied to a string of more than 10
\* characters with uppercase letters among the first 10.
LongDataWitness ==
    /\ msel = Some(ApproveSel)
    /\ mtx[1].data # Absent
    /\ Len(mtx[1].data[1]) > 10
    /\ SubSeq(mtx[1].data[1], 1, 10) = ApproveUpper

\* a rule list that is unset or empty
UnsetOrEmpty(list) == list = Absent \/ list = Some(<<>>)

\* C8: if the minimum value is unset and the three lists are unset or empty,
\* matchRules accepts every transaction with an empty reasons list.
EmptyRulesAcceptAll ==
    (/\ mout # Absent
     /\ mrules[1].minEth = Absent
     /\ UnsetOrEmpty(mrules[1].allowSelectors)
     /\ UnsetOrEmpty(mrules[1].denySelectors)
     /\ UnsetOrEmpty(mrules[1].watchRecipients))
    => mout[1] = [ok |-> TRUE, reason |-> <<>>]

\* C8 witness: a transaction without value, data and recipient has been
\* accepted under a rule set whose lists are empty.
EmptyRulesWitness ==
    /\ mout = Some([ok |-> TRUE, reason |-> <<>>])
    /\ mrules[1] = [minEth |-> Absent, allowSelectors |-> Some(<<>>),
                    denySelectors |-> Some(<<>>), watchRecipients |-> Some(<<>>)]
    /\ mtx[1].value = Absent
    /\ mtx[1].data = Absent
    /\ mtx[1].to = Absent

\* the text of a threshold of the input sets in a reason
ThresholdText(d) ==
    CASE d = Dec(5, -1) -> "0.5"
      [] d = Dec(1, 0) -> "1"
      [] OTHER -> "0"

\* C10: the reasons list is exactly the subsequence of ["value<{minValue}",
\* "!allowed:{sel}", "denied:{sel}", "!watched:to"], in that order, holding
\* each reason if and only if its own condition holds.
ReasonsAreExactSubsequence ==
    mout # Absent =>
        LET r == mrules[1]
            t == mtx[1]
            eth == weiToEth(Coalesce(t.value, Zero))
            value == IF r.minEth # Absent /\ Less(eth, r.minEth[1])
                     THEN <<"value<" \o ThresholdText(r.minEth[1])>> ELSE <<>>
            allowed == IF /\ r.allowSelectors # Absent
                          /\ r.allowSelectors[1] # <<>>
                          /\ ~Includes(r.allowSelectors[1], ExtractedSel)
                       THEN <<"!allowed:" \o Str(ExtractedSel)>> ELSE <<>>
            denied == IF /\ r.denySelectors # Absent
                         /\ r.denySelectors[1] # <<>>
                         /\ Includes(r.denySelectors[1], ExtractedSel)
                      THEN <<"denied:" \o Str(ExtractedSel)>> ELSE <<>>
            watched == IF /\ r.watchRecipients # Absent
                          /\ r.watchRecipients[1] # <<>>
                          /\ \A i \in 1..Len(r.watchRecipients[1]) :
                                ~IsLowerOf(r.watchRecipients[1][i], Coalesce(t.to, <<>>))
                       THEN <<"!watched:to">> ELSE <<>>
        IN  mout[1].reason = value \o allowed \o denied \o watched

\* C10 witness: a transaction that fails all four checks carries all four
\* reasons, in order.
FourReasonsWitness ==
    /\ mout # Absent
    /\ mout[1].reason = <<"value<0.5", "!allowed:0x095ea7b3", "denied:0x095ea7b3",
                          "!watched:to">>

====
